---- MODULE Spec2Model ----
(***************************************************************************)
(* A model of meta/model/__init__.py of polymc-meta: the Maven coordinate  *)
(* type GradleSpecifier, the rule synthesis of MojangLibrary.dict(), the   *)
(* trait derivation MojangLibrary.add_archdependent_trait() and the        *)
(* format-version validator of Versioned.                                  *)
(*                                                                         *)
(* Python strings are sequences of one-character strings, so that split,   *)
(* formatting and the "in" substring test are computed, not assumed.       *)
(* An Optional value is None (the empty tuple) or Some(x) (the 1-tuple).   *)
(***************************************************************************)
EXTENDS Integers, Sequences, FiniteSets

VARIABLES
    v,          \* GradleSpecifier.from_string: the argument string
    coordState, \* "input", "parsed" (from_string returned), "raised", "printed"; "idle"
    spec,       \* Optional: the GradleSpecifier from_string returned
    text,       \* Optional: str(spec)
    lib,        \* the MojangLibrary instance (self): name, rules, arch_rules, traits
    out,        \* the last MojangLibrary.dict() call: status "none" | "ok" | "raised"
    traits0,    \* lib.traits as constructed
    traitCalls, \* number of add_archdependent_trait() calls made on lib
    docs,       \* the Versioned documents constructed so far
    rejected    \* the format_version values construction has rejected so far

vars == <<v, coordState, spec, text, lib, out, traits0, traitCalls, docs, rejected>>

coordVars == <<v, coordState, spec, text>>
libVars == <<lib, out, traits0, traitCalls>>
docVars == <<docs, rejected>>

(***************************************************************************)
(* Bounds of the model.                                                    *)
(***************************************************************************)
MaxComponents == 5   \* ':'-separated components of an input coordinate
MaxAts == 2          \* '@' characters of an input coordinate
MaxRules == 1        \* explicit rules of a library
MaxArches == 2       \* arch names over all the lists of an arch_rules map
MaxTraits == 2       \* traits a library is constructed with
MaxCalls == 3        \* calls of add_archdependent_trait
MaxDocs == 3         \* Versioned documents constructed
MaxFormatVersion == 3 \* largest formatVersion offered to construction

None == <<>>
Some(x) == <<x>>

(***************************************************************************)
(* String literals of the source.                                          *)
(***************************************************************************)
Str_jar == <<"j", "a", "r">>
Str_zip == <<"z", "i", "p">>
Str_lwjgl == <<"l", "w", "j", "g", "l">>
Str_objc == <<"o", "b", "j", "c">>

RECURSIVE split(_, _)
\* str.split(sep) for a one-character separator
split(s, sep) ==
    IF \A i \in 1..Len(s) : s[i] # sep
    THEN <<s>>
    ELSE LET i == CHOOSE k \in 1..Len(s) :
                      s[k] = sep /\ \A j \in 1..(k - 1) : s[j] # sep
         IN  <<SubSeq(s, 1, i - 1)>> \o split(SubSeq(s, i + 1, Len(s)), sep)

\* the Python test  sub in s
contains(sub, s) ==
    \E i \in 1..(Len(s) - Len(sub) + 1) : SubSeq(s, i, i + Len(sub) - 1) = sub

\* a non-None, non-empty Optional string is truthy
truthy(opt) == opt # None /\ opt[1] # <<>>

(***************************************************************************)
(* GradleSpecifier                                                         *)
(***************************************************************************)
GradleSpecifier(group, artifact, version, classifier, extension) ==
    [group |-> group, artifact |-> artifact, version |-> version,
     classifier |-> classifier,
     extension |-> IF extension = None THEN Str_jar ELSE extension[1]]

\* __str__ that appends the extension whatever it is
str_always_ext(self) ==
    LET ext == <<"@">> \o self.extension
    IN  IF truthy(self.classifier)
        THEN self.group \o <<":">> \o self.artifact \o <<":">> \o self.version
                 \o <<":">> \o self.classifier[1] \o ext
        ELSE self.group \o <<":">> \o self.artifact \o <<":">> \o self.version \o ext

\* GradleSpecifier.__str__
str(self) ==
    LET ext == IF self.extension # Str_jar THEN <<"@">> \o self.extension ELSE <<>>
    IN  IF truthy(self.classifier)
        THEN self.group \o <<":">> \o self.artifact \o <<":">> \o self.version
                 \o <<":">> \o self.classifier[1] \o ext
        ELSE self.group \o <<":">> \o self.artifact \o <<":">> \o self.version \o ext

\* GradleSpecifier.is_archdependent
is_archdependent(self) ==
    IF contains(Str_lwjgl, self.group) THEN TRUE
    ELSE IF contains(Str_objc, self.artifact) THEN TRUE
    ELSE FALSE

\* components[2] of from_string: indexing past the end raises IndexError
from_string_raises(s) == Len(split(split(s, "@")[1], ":")) < 3

\* GradleSpecifier.from_string, where it does not raise
from_string(s) ==
    LET ext_split == split(s, "@")
        components == split(ext_split[1], ":")
        extension == IF Len(ext_split) = 2 THEN Some(ext_split[2]) ELSE None
        classifier == IF Len(components) = 4 THEN Some(components[4]) ELSE None
    IN  GradleSpecifier(components[1], components[2], components[3],
                        classifier, extension)

(***************************************************************************)
(* Input coordinates: up to MaxComponents components joined by ':' and     *)
(* then up to MaxAts pieces each introduced by '@'.                        *)
(***************************************************************************)
Idents == {<<>>, <<"a">>, <<"b">>}
Exts == {<<>>, Str_jar, Str_zip}

SeqsUpTo(S, n) == UNION {[1..k -> S] : k \in 0..n}

RECURSIVE join(_, _)
join(parts, sep) ==
    IF Len(parts) = 0 THEN <<>>
    ELSE IF Len(parts) = 1 THEN parts[1]
    ELSE parts[1] \o <<sep>> \o join(Tail(parts), sep)

RECURSIVE withAts(_, _)
withAts(body, exts) ==
    IF Len(exts) = 0 THEN body
    ELSE withAts(body \o <<"@">> \o exts[1], Tail(exts))

Inputs ==
    {withAts(join(cs, ":"), es) :
        cs \in (SeqsUpTo(Idents, MaxComponents) \ {<<>>}), es \in SeqsUpTo(Exts, MaxAts)}

NoLib == [name |-> None, rules |-> None, arch_rules |-> None, traits |-> None]
NoOut == [status |-> "none", result |-> None]

CoordIdle ==
    /\ v = <<>> /\ coordState = "idle" /\ spec = None /\ text = None
LibIdle ==
    /\ lib = NoLib /\ out = NoOut /\ traits0 = None /\ traitCalls = 0
DocIdle ==
    /\ docs = <<>> /\ rejected = {}

InitCoord ==
    /\ v \in Inputs
    /\ coordState = "input"
    /\ spec = None
    /\ text = None
    /\ LibIdle
    /\ DocIdle

\* GradleSpecifier.from_string(v) called
FromString ==
    /\ coordState = "input"
    /\ IF from_string_raises(v)
       THEN coordState' = "raised" /\ spec' = None
       ELSE coordState' = "parsed" /\ spec' = Some(from_string(v))
    /\ UNCHANGED <<v, text, libVars, docVars>>

\* str(spec) called on the parsed coordinate
Str ==
    /\ coordState = "parsed"
    /\ text' = Some(str(spec[1]))
    /\ coordState' = "printed"
    /\ UNCHANGED <<v, spec, libVars, docVars>>

NextCoord == FromString \/ Str

SpecCoord == InitCoord /\ [][NextCoord]_vars

(***************************************************************************)
(* Versioned                                                               *)
(***************************************************************************)
META_FORMAT_VERSION == 1

\* a validator that rejects the supported maximum itself
format_version_below_max(fv) == fv < META_FORMAT_VERSION

\* Versioned.format_version_must_be_supported: the assert passes
format_version_must_be_supported(fv) == fv <= META_FORMAT_VERSION

\* Versioned.format_version: the Field default, which the validator does not see
format_version_field(given) ==
    IF given = None THEN META_FORMAT_VERSION ELSE given[1]

DocKinds == {"MetaVersion", "MetaPackage"}

InitDoc ==
    /\ docs = <<>>
    /\ rejected = {}
    /\ CoordIdle
    /\ LibIdle

\* MetaVersion(...) or MetaPackage(...) constructed or parsed, with or without a
\* formatVersion
Construct ==
    /\ Len(docs) < MaxDocs
    /\ \E kind \in DocKinds, given \in {None} \cup {Some(n) : n \in 0..MaxFormatVersion} :
          IF given = None \/ format_version_must_be_supported(given[1])
          THEN /\ docs' = Append(docs, [kind |-> kind,
                                        format_version |-> format_version_field(given)])
               /\ UNCHANGED rejected
          ELSE /\ rejected' = rejected \cup {given[1]}
               /\ UNCHANGED docs
    /\ UNCHANGED <<coordVars, libVars>>

NextDoc == Construct

SpecDoc == InitDoc /\ [][NextDoc]_vars

(***************************************************************************)
(* OSRule, MojangRule, MojangRules                                         *)
(***************************************************************************)
\* a validator that accepts every action
action_unchecked(action) == TRUE

\* MojangRule.action_must_be_allow_disallow: the assert passes
action_must_be_allow_disallow(action) == action \in {"allow", "disallow"}

\* OSRule.name_must_be_os: the assert passes
name_must_be_os(name) ==
    name \in {"osx", "osx-arm64", "linux", "linux-arm64", "windows"}

OSRule(name, version) == [name |-> name, version |-> version]
MojangRule(action, os) == [action |-> action, os |-> os]

\* MojangRule(action=action, os=OSRule(name=arch, version=None)) raises
rule_raises(action, arch) ==
    ~name_must_be_os(arch) \/ ~action_must_be_allow_disallow(action)

\* not new_self.rules: MojangRules defines neither __bool__ nor __len__, so an
\* instance is truthy whatever its __root__ holds; only None is falsy
not_rules(rules) == rules = None

\* not self.arch_rules: None and the empty dict are falsy
not_arch_rules(arch_rules) == arch_rules = None \/ arch_rules[1] = <<>>

\* "disallow" in new_self.arch_rules; the dict is a sequence of <<key, list>>
has_key(arch_rules, key) == \E i \in 1..Len(arch_rules) : arch_rules[i][1] = key

RECURSIVE items_reversed_lists(_)
\* an iteration that walks each arch list backwards
items_reversed_lists(arch_rules) ==
    IF arch_rules = <<>> THEN <<>>
    ELSE LET n == Len(arch_rules[1][2])
         IN  [i \in 1..n |-> <<arch_rules[1][1], arch_rules[1][2][n + 1 - i]>>]
                 \o items_reversed_lists(Tail(arch_rules))

RECURSIVE items(_)
\* for action, arches in arch_rules.items(): for arch in arches: the <<action, arch>>
\* visited, in order
items(arch_rules) ==
    IF arch_rules = <<>> THEN <<>>
    ELSE [i \in 1..Len(arch_rules[1][2]) |-> <<arch_rules[1][1], arch_rules[1][2][i]>>]
             \o items(Tail(arch_rules))

(***************************************************************************)
(* MojangLibrary.  Objects live in a heap (a function from references to   *)
(* field records) so that copy.deepcopy and assignment through a reference *)
(* are what they are in Python.                                            *)
(***************************************************************************)
\* new_self = self: no copy is made
no_copy(heap, ref) == [heap |-> heap, ref |-> ref]

\* copy.deepcopy(self): a fresh object with equal fields, sharing nothing
deepcopy(heap, ref) ==
    [heap |-> [o \in DOMAIN heap \cup {"new_self"} |->
                  IF o = "new_self" THEN heap[ref] ELSE heap[o]],
     ref |-> "new_self"]

\* MetaBase.dict: the fields as a mapping
MetaBase_dict(obj) ==
    [name |-> obj.name, rules |-> obj.rules, arch_rules |-> obj.arch_rules,
     traits |-> obj.traits]

RECURSIVE append_rules(_, _, _)
\* the loop of lines 243-245 over the pairs still to visit: each rule is validated
\* when constructed and appended to new_self.rules.__root__; a failed validation
\* leaves the loop with the appends made so far
append_rules(heap, ref, todo) ==
    IF todo = <<>> THEN [heap |-> heap, raised |-> FALSE]
    ELSE IF rule_raises(todo[1][1], todo[1][2]) THEN [heap |-> heap, raised |-> TRUE]
    ELSE append_rules(
             [heap EXCEPT ![ref].rules =
                 Some(@[1] \o <<MojangRule(todo[1][1], Some(OSRule(todo[1][2], None)))>>)],
             ref, Tail(todo))

\* MojangLibrary.dict(self), run on the heap that holds self: the status, the
\* mapping returned and the heap afterwards
MojangLibrary_dict(heap0) ==
    LET self == heap0["self"]
    IN  IF not_arch_rules(self.arch_rules)
        THEN [status |-> "ok", result |-> Some(MetaBase_dict(self)), heap |-> heap0]
        ELSE LET c == deepcopy(heap0, "self")
                 n == c.ref
                 h1 == IF not_rules(c.heap[n].rules)
                       THEN [c.heap EXCEPT ![n].rules =
                                IF has_key(c.heap[n].arch_rules[1], "disallow")
                                THEN Some(<<MojangRule("allow", None)>>)
                                ELSE Some(<<>>)]
                       ELSE c.heap
                 l == append_rules(h1, n, items(h1[n].arch_rules[1]))
                 h2 == [l.heap EXCEPT ![n].arch_rules = None]
             IN  IF l.raised
                 THEN [status |-> "raised", result |-> None, heap |-> l.heap]
                 ELSE [status |-> "ok", result |-> Some(MetaBase_dict(h2[n])),
                       heap |-> h2]

\* add_archdependent_trait that skips a trait already present
add_trait_once(self) ==
    IF is_archdependent(self.name)
    THEN IF self.traits # None /\ self.traits[1] # <<>>
         THEN IF \E i \in 1..Len(self.traits[1]) : self.traits[1][i] = "ArchDependent"
              THEN self
              ELSE [self EXCEPT !.traits = Some(@[1] \o <<"ArchDependent">>)]
         ELSE [self EXCEPT !.traits = Some(<<"ArchDependent">>)]
    ELSE self

\* MojangLibrary.add_archdependent_trait: self afterwards
add_archdependent_trait(self) ==
    IF is_archdependent(self.name)
    THEN IF self.traits # None /\ self.traits[1] # <<>>
         THEN [self EXCEPT !.traits = Some(@[1] \o <<"ArchDependent">>)]
         ELSE [self EXCEPT !.traits = Some(<<"ArchDependent">>)]
    ELSE self

(***************************************************************************)
(* Library inputs                                                          *)
(***************************************************************************)
Name_lwjgl ==
    <<"o", "r", "g", ".", "l", "w", "j", "g", "l", ".", "l", "w", "j", "g", "l", ":", "l", "w", "j", "g", "l", ":", "2", ".", "9", ".", "0">>
Name_jinput ==
    <<"n", "e", "t", ".", "j", "a", "v", "a", ".", "j", "i", "n", "p", "u", "t", ":", "j", "i", "n", "p", "u", "t", ":", "2", ".", "0", ".", "5">>
Name_launchwrapper ==
    <<"n", "e", "t", ".", "m", "i", "n", "e", "c", "r", "a", "f", "t", ":", "l", "a", "u", "n", "c", "h", "w", "r", "a", "p", "p", "e", "r", ":", "1", ".", "5">>
Name_objc ==
    <<"c", "a", ".", "w", "e", "b", "l", "i", "t", "e", ":", "j", "a", "v", "a", "-", "o", "b", "j", "c", "-", "b", "r", "i", "d", "g", "e", ":", "1", ".", "0", ".", "0">>

ActionKeys == {"allow", "disallow", "deny"}
ArchNames == {"osx-arm64", "linux-arm64", "amiga"}
ExplicitRules ==
    {MojangRule("allow", None), MojangRule("disallow", Some(OSRule("osx", None)))}
TraitStrings == {"FirstThreadOnMacOS", "ArchDependent"}

RECURSIVE total(_)
total(lists) == IF lists = <<>> THEN 0 ELSE Len(lists[1]) + total(Tail(lists))

\* the dicts {action: [arch...]} in every insertion order of distinct keys, holding
\* at most MaxArches arch names altogether
ArchRulesDicts ==
    UNION {
        {[i \in 1..Len(ks) |-> <<ks[i], ls[i]>>] :
            ls \in {f \in [1..Len(ks) -> SeqsUpTo(ArchNames, MaxArches)] :
                       total(f) <= MaxArches}} :
        ks \in {s \in SeqsUpTo(ActionKeys, Cardinality(ActionKeys)) :
                   \A i, j \in 1..Len(s) : i # j => s[i] # s[j]}}

InitDict ==
    /\ \E rules \in {None} \cup {Some(r) : r \in SeqsUpTo(ExplicitRules, MaxRules)},
          arch_rules \in {None} \cup {Some(d) : d \in ArchRulesDicts},
          traits \in {None, Some(<<"ArchDependent">>)} :
          /\ lib = [name |-> from_string(Name_lwjgl), rules |-> rules,
                    arch_rules |-> arch_rules, traits |-> traits]
          /\ traits0 = traits
    /\ out = NoOut
    /\ traitCalls = 0
    /\ CoordIdle
    /\ DocIdle

\* lib.dict() called
Dict ==
    /\ LET r == MojangLibrary_dict([o \in {"self"} |-> lib])
       IN  /\ lib' = r.heap["self"]
           /\ out' = [status |-> r.status, result |-> r.result]
    /\ UNCHANGED <<traits0, traitCalls, coordVars, docVars>>

NextDict == Dict

SpecDict == InitDict /\ [][NextDict]_vars

InitTrait ==
    /\ \E name \in {Name_lwjgl, Name_jinput, Name_launchwrapper, Name_objc},
          traits \in {None} \cup {Some(t) : t \in SeqsUpTo(TraitStrings, MaxTraits)} :
          /\ lib = [name |-> from_string(name), rules |-> None,
                    arch_rules |-> None, traits |-> traits]
          /\ traits0 = traits
    /\ out = NoOut
    /\ traitCalls = 0
    /\ CoordIdle
    /\ DocIdle

\* lib.add_archdependent_trait() called
AddTrait ==
    /\ traitCalls < MaxCalls
    /\ lib' = add_archdependent_trait(lib)
    /\ traitCalls' = traitCalls + 1
    /\ UNCHANGED <<out, traits0, coordVars, docVars>>

NextTrait == AddTrait

SpecTrait == InitTrait /\ [][NextTrait]_vars

(***************************************************************************)
(* Vocabulary of the properties                                            *)
(***************************************************************************)
HasAt(s) == \E i \in 1..Len(s) : s[i] = "@"
FirstAt(s) == CHOOSE i \in 1..Len(s) : s[i] = "@" /\ \A j \in 1..(i - 1) : s[j] # "@"
BeforeFirstAt(s) == IF HasAt(s) THEN SubSeq(s, 1, FirstAt(s) - 1) ELSE s
AfterFirstAt(s) == SubSeq(s, FirstAt(s) + 1, Len(s))
\* the number of components the text before '@' splits into on ':'
NumComponents(s) ==
    1 + Cardinality({i \in 1..Len(BeforeFirstAt(s)) : BeforeFirstAt(s)[i] = ":"})

Parsed == coordState \in {"parsed", "printed"}

\* group:artifact:version[:classifier][@extension], every part present being a
\* non-empty name, the extension written iff it is not "jar"
CanonicalStrings ==
    LET names == Idents \ {<<>>}
        gav == {g \o <<":">> \o a \o <<":">> \o ver :
                   g \in names, a \in names, ver \in names}
        body == gav \cup {b \o <<":">> \o c : b \in gav, c \in names}
    IN  body \cup {b \o <<"@">> \o e : b \in body, e \in Exts \ {<<>>, Str_jar}}

AllowAll == [action |-> "allow", os |-> None]
ArchRule(action, arch) ==
    [action |-> action, os |-> Some([name |-> arch, version |-> None])]

RECURSIVE Expansion(_)
\* one rule per (action, arch name), the actions in the dict's order and each
\* action's arch names in list order
Expansion(d) ==
    IF d = <<>> THEN <<>>
    ELSE [i \in 1..Len(d[1][2]) |-> ArchRule(d[1][1], d[1][2][i])] \o Expansion(Tail(d))

Keys(d) == {d[i][1] : i \in 1..Len(d)}
NumArchNames(d) == Cardinality({<<i, j>> \in (1..Len(d)) \X (1..MaxArches + 1) :
                                   j <= Len(d[i][2])})
RecognizedActions == {"allow", "disallow"}
RecognizedOS == {"osx", "osx-arm64", "linux", "linux-arm64", "windows"}
\* every key and every arch name of the dict is recognized
AllRecognized(d) ==
    \A i \in 1..Len(d) :
        /\ d[i][1] \in RecognizedActions
        /\ \A j \in 1..Len(d[i][2]) : d[i][2][j] \in RecognizedOS
\* some rule the expansion would build is invalid
SomeInvalidRule(d) ==
    \E i \in 1..Len(d) : \E j \in 1..Len(d[i][2]) :
        d[i][1] \notin RecognizedActions \/ d[i][2][j] \notin RecognizedOS
ValidRule(r) ==
    /\ r.action \in RecognizedActions
    /\ r.os # None => r.os[1].name \in RecognizedOS

ExplicitEmpty(l) == l.rules = None \/ l.rules[1] = <<>>
ArchPresent(l) == l.arch_rules # None /\ l.arch_rules[1] # <<>>
Returned == out.status = "ok"

\* the coordinate is arch-dependent: group contains "lwjgl" or artifact "objc"
ArchDependentCoordinate(name) ==
    contains(Str_lwjgl, name.group) \/ contains(Str_objc, name.artifact)

(***************************************************************************)
(* C1: with empty explicit rules (absent, or a present list of zero        *)
(* entries) and a "disallow" key in arch_rules, the rules dict() returns   *)
(* are one unconditional allow rule followed by the expanded arch_rules;   *)
(* with empty explicit rules and only "allow" keys, they are the expanded  *)
(* arch_rules alone.                                                       *)
(***************************************************************************)
C1_BaselineInsertion ==
    (Returned /\ ExplicitEmpty(lib) /\ ArchPresent(lib)) =>
        /\ "disallow" \in Keys(lib.arch_rules[1]) =>
               out.result[1].rules = Some(<<AllowAll>> \o Expansion(lib.arch_rules[1]))
        /\ Keys(lib.arch_rules[1]) = {"allow"} =>
               out.result[1].rules = Some(Expansion(lib.arch_rules[1]))

(***************************************************************************)
(* C2: whatever arch_rules is (absent, an empty dict, a dict of empty      *)
(* lists, a non-empty dict), the mapping dict() returns has arch_rules     *)
(* None.                                                                   *)
(***************************************************************************)
C2_ArchRulesNeverEmitted ==
    Returned => out.result[1].arch_rules = None

(***************************************************************************)
(* C3: with a non-empty explicit rule list R and a non-empty arch_rules    *)
(* dict M, dict() returns exactly R followed by the expansion of M, of     *)
(* length len(R) plus the number of arch names in M, with no blanket allow *)
(* rule inserted; and it does return when every key and arch name of M is  *)
(* recognized.                                                             *)
(***************************************************************************)
C3_AppendedAfterExplicit ==
    (out.status # "none" /\ ~ExplicitEmpty(lib) /\ ArchPresent(lib)) =>
        /\ AllRecognized(lib.arch_rules[1]) => Returned
        /\ Returned =>
              /\ out.result[1].rules = Some(lib.rules[1] \o Expansion(lib.arch_rules[1]))
              /\ Len(out.result[1].rules[1])
                     = Len(lib.rules[1]) + NumArchNames(lib.arch_rules[1])

C3_Witness ==
    /\ Returned
    /\ lib.rules = Some(<<MojangRule("disallow", Some(OSRule("osx", None)))>>)
    /\ lib.arch_rules = Some(<<<<"disallow", <<"linux-arm64">>>>, <<"allow", <<"osx-arm64">>>>>>)
    /\ Len(out.result[1].rules[1]) = 3

(***************************************************************************)
(* C4: a dict() call on a library with non-empty arch_rules leaves the     *)
(* library's own fields (rules, arch_rules, traits, name) as they were,    *)
(* and a call made after one has returned returns the same again.          *)
(***************************************************************************)
C4_DictHasNoSideEffect ==
    [][ArchPresent(lib) => /\ lib' = lib
                           /\ out.status # "none" => out' = out]_vars

C4_Witness ==
    /\ Returned
    /\ ArchPresent(lib)
    /\ lib.rules = None
    /\ lib.traits # None
    /\ out.result[1].rules # None
    /\ out.result[1].arch_rules = None

(***************************************************************************)
(* C5: from_string raises exactly when the text before '@' splits on ':'   *)
(* into fewer than 3 or more than 4 components.                            *)
(***************************************************************************)
C5_ComponentCountEnforced ==
    coordState # "input" =>
        (coordState = "raised" <=> NumComponents(v) \notin {3, 4})

(***************************************************************************)
(* C6: for every canonical coordinate string s, from_string(s) returns and *)
(* str(from_string(s)) = s.                                                *)
(***************************************************************************)
C6_RoundTrip ==
    v \in CanonicalStrings =>
        /\ coordState # "raised"
        /\ coordState = "printed" => text = Some(v)

C6_Witness ==
    /\ coordState = "printed"
    /\ v \in CanonicalStrings
    /\ NumComponents(v) = 4
    /\ HasAt(v)
    /\ text = Some(v)

(***************************************************************************)
(* C7: every Versioned document construction returns has                   *)
(* format_version <= META_FORMAT_VERSION, and only values greater than     *)
(* META_FORMAT_VERSION are rejected.                                       *)
(***************************************************************************)
C7_FormatVersionGate ==
    /\ \A i \in 1..Len(docs) : docs[i].format_version <= META_FORMAT_VERSION
    /\ \A fv \in rejected : fv > META_FORMAT_VERSION

C7_Witness ==
    /\ \E i \in 1..Len(docs) : docs[i].format_version = META_FORMAT_VERSION
    /\ (META_FORMAT_VERSION + 1) \in rejected

(***************************************************************************)
(* C8: after n calls of add_archdependent_trait on a library whose         *)
(* coordinate is arch-dependent, traits is the list it was constructed     *)
(* with (the empty list if absent) followed by n "ArchDependent"; on any   *)
(* other library traits stays as constructed, absent if it was absent.     *)
(***************************************************************************)
C8_TraitAppendedPerCall ==
    IF ArchDependentCoordinate(lib.name) /\ traitCalls > 0
    THEN lib.traits = Some((IF traits0 = None THEN <<>> ELSE traits0[1])
                               \o [i \in 1..traitCalls |-> "ArchDependent"])
    ELSE lib.traits = traits0

C8_Witness ==
    /\ traitCalls = 2
    /\ traits0 = Some(<<"FirstThreadOnMacOS", "ArchDependent">>)
    /\ contains(Str_objc, lib.name.artifact)
    /\ lib.traits = Some(<<"FirstThreadOnMacOS", "ArchDependent", "ArchDependent",
                           "ArchDependent">>)

(***************************************************************************)
(* C9: the parsed extension is the whole text after the first '@' when the *)
(* input holds an '@', and "jar" only when it holds none.                  *)
(***************************************************************************)
C9_ExtensionAfterFirstAt ==
    Parsed =>
        spec[1].extension = (IF HasAt(v) THEN AfterFirstAt(v) ELSE Str_jar)

(***************************************************************************)
(* C10 as stated: every rule dict() returns is valid, and dict() raises    *)
(* and returns nothing whenever arch_rules holds an unrecognized action    *)
(* key or an unrecognized arch name.                                       *)
(***************************************************************************)
C10_UnrecognizedAlwaysRaises ==
    /\ Returned /\ out.result[1].rules # None =>
           \A i \in 1..Len(out.result[1].rules[1]) : ValidRule(out.result[1].rules[1][i])
    /\ (out.status # "none" /\ ArchPresent(lib) /\ ~AllRecognized(lib.arch_rules[1])) =>
           out.status = "raised" /\ out.result = None

(***************************************************************************)
(* C10 amended: every rule a dict() call returns is valid; a call on a     *)
(* library whose arch_rules would expand to a rule with an unrecognized    *)
(* action or arch name (an unrecognized key with at least one arch name,   *)
(* or an unrecognized arch name) raises, returns nothing and leaves the    *)
(* library as it was.                                                      *)
(***************************************************************************)
C10_InvalidRuleRaises ==
    [][out'.status # "none" =>
          /\ out'.status = "ok" /\ out'.result[1].rules # None =>
                 \A i \in 1..Len(out'.result[1].rules[1]) :
                     ValidRule(out'.result[1].rules[1][i])
          /\ (ArchPresent(lib) /\ SomeInvalidRule(lib.arch_rules[1])) =>
                 /\ out'.status = "raised"
                 /\ out'.result = None
                 /\ lib' = lib]_vars

C10_Witness ==
    /\ out.status = "raised"
    /\ lib.arch_rules = Some(<<<<"allow", <<"osx-arm64">>>>, <<"deny", <<"linux-arm64">>>>>>)

====
